---- MODULE Spec2Model ----
(***************************************************************************)
(* Model of the LINE bot of main.py: the per-user working directory store  *)
(* (WORK_DIRECTORIES), the command router and the conversational path of   *)
(* handle_message, with the collaborators execute_command, run_gemini,     *)
(* gemini_chat and save_history/load_history.                              *)
(* SpecTest is the handler of test.py, SpecThreads the handler of main.py   *)
(* in the threads of the development server, SpecHistory the history files *)
(* of history.py over time.                                                *)
(*                                                                         *)
(* Strings are sequences of one-character strings.  A path is a record     *)
(* [abs, parts] as pathlib keeps it; a directory of the file system is the *)
(* sequence of its components from the root.  The file system has no       *)
(* symbolic links.                                                         *)
(***************************************************************************)
EXTENDS Integers, Sequences, FiniteSets, TLC

VARIABLES
    WORK_DIRECTORIES,  \* main.py:119, dict user_id -> Path
    dirs,              \* the directories that exist in the file system
    fsChanges,         \* number of directory creations/removals so far
    history,           \* history/<user_id>.jsonl, user_id -> sequence of entries
    event,             \* the inbound event handled last, with its environment
    pre,               \* WORK_DIRECTORIES before the event handled last
    route,             \* the branch handle_message took for that event
    log,               \* the calls handle_message made for that event, in order
    raised,            \* the exception that left handle_message, or "none"
    committed,         \* user_id -> the path text of the latest successful !cd reply
    repeat,            \* how this !cd compares with the same !cd handled just before
    follow,            \* for a !pwd: the path text the user's !cd just before led to
    threads,           \* the handlers of the threaded server that run side by side
    clock,             \* datetime.now(JST), in hours since start-up
    request            \* the turns the event handled last passed to gemini_chat

vars == <<WORK_DIRECTORIES, dirs, fsChanges, history, event, pre, route, log,
          raised, committed, repeat, follow, threads, clock, request>>

----------------------------------------------------------------------------
\* Bounds and the environment

\* at most this many directory creations/removals by shell commands
MaxFsChanges == 1

\* at most this many (user, model) pairs in one user's history file
MaxPairs == 2

\* the clock stops at this many hours
MaxClock == 18

Users == {"U1", "U2"}

Tokens == {"rt1"}

NoPath == [abs |-> FALSE, parts |-> << <<"?">> >>]

\* the home directory that "~" expands to
HOME == << <<"h">> >>

\* the working directory of the server process
ProcessCwd == << <<"h">> >>

\* the directories that may exist
DirUniverse ==
    { <<>>, << <<"a">> >>, << <<"a">>, <<"s">> >>, << <<"h">> >> }

\* the directories that exist when the server starts
InitDirs == DirUniverse

----------------------------------------------------------------------------
\* Python str operations

Whitespace == {" ", "\t", "\n"}

RECURSIVE lstrip(_)
lstrip(s) ==
    IF s # <<>> /\ s[1] \in Whitespace THEN lstrip(Tail(s)) ELSE s

RECURSIVE rstrip(_)
rstrip(s) ==
    IF s # <<>> /\ s[Len(s)] \in Whitespace
    THEN rstrip(SubSeq(s, 1, Len(s) - 1))
    ELSE s

strip(s) == rstrip(lstrip(s))

startswith(s, p) ==
    Len(s) >= Len(p) /\ SubSeq(s, 1, Len(p)) = p

\* s[n:]
SliceFrom(s, n) == SubSeq(s, n + 1, Len(s))

----------------------------------------------------------------------------
\* pathlib and the file system

\* the components of s between the "/" separators, empty ones included
RECURSIVE SplitSlash(_, _, _)
SplitSlash(s, cur, acc) ==
    IF s = <<>> THEN Append(acc, cur)
    ELSE IF s[1] = "/" THEN SplitSlash(Tail(s), <<>>, Append(acc, cur))
    ELSE SplitSlash(Tail(s), Append(cur, s[1]), acc)

KeepPart(c) == c # <<>> /\ c # <<".">>

\* Path(s): empty and "." components are dropped, ".." is kept
Path(s) ==
    [abs |-> s # <<>> /\ s[1] = "/",
     parts |-> SelectSeq(SplitSlash(s, <<>>, <<>>), KeepPart)]

\* Path.expanduser(): a leading "~" component becomes the home directory
expanduser(p) ==
    IF ~p.abs /\ p.parts # <<>> /\ p.parts[1] = <<"~">>
    THEN [abs |-> TRUE, parts |-> HOME \o Tail(p.parts)]
    ELSE p

\* workdir / new_dir for a relative new_dir; ".." is not collapsed
JoinPathUnjoined(workdir, new_dir) == new_dir

JoinPath(workdir, new_dir) ==
    [abs |-> TRUE, parts |-> workdir.parts \o new_dir.parts]

RECURSIVE JoinChars(_)
JoinChars(parts) ==
    IF parts = <<>> THEN <<>>
    ELSE IF Len(parts) = 1 THEN parts[1]
    ELSE parts[1] \o <<"/">> \o JoinChars(Tail(parts))

\* str(path)
PathStr(p) ==
    IF p.abs THEN <<"/">> \o JoinChars(p.parts)
    ELSE IF p.parts = <<>> THEN <<".">>
    ELSE JoinChars(p.parts)

NoDir == << <<"!">> >>

Parent(d) == IF d = <<>> THEN <<>> ELSE SubSeq(d, 1, Len(d) - 1)

\* the directory reached from cur along rest as the operating system walks
\* it: every directory on the way has to exist
RECURSIVE WalkFrom(_, _, _)
WalkFrom(cur, rest, ds) ==
    IF cur \notin ds THEN NoDir
    ELSE IF rest = <<>> THEN cur
    ELSE IF rest[1] = <<".", ".">> THEN WalkFrom(Parent(cur), Tail(rest), ds)
    ELSE WalkFrom(Append(cur, rest[1]), Tail(rest), ds)

Walk(p, ds) == WalkFrom(IF p.abs THEN <<>> ELSE ProcessCwd, p.parts, ds)

\* Path.is_dir()
is_dir(p, ds) == Walk(p, ds) # NoDir

\* ".." collapsed without looking at the file system
RECURSIVE LexNorm(_, _)
LexNorm(cur, rest) ==
    IF rest = <<>> THEN cur
    ELSE IF rest[1] = <<".", ".">> THEN LexNorm(Parent(cur), Tail(rest))
    ELSE LexNorm(Append(cur, rest[1]), Tail(rest))

\* Path.resolve(): the absolute path without "..": the directory the walk
\* reaches, and for a path that does not exist its collapsed form
resolve(p, ds) ==
    [abs |-> TRUE,
     parts |-> IF is_dir(p, ds) THEN Walk(p, ds)
               ELSE LexNorm(IF p.abs THEN <<>> ELSE ProcessCwd, p.parts)]

\* DEFAULT_WORKDIR, resolved once at start-up to an existing directory
DEFAULT_WORKDIR == [abs |-> TRUE, parts |-> << <<"a">> >>]

----------------------------------------------------------------------------
\* The directive markup, re.search and re.sub (main.py:208, 215)

OpenTag == "<gemini-cli>"

CloseTag == "</gemini-cli>"

NoMatch == [start |-> 0, end |-> 0]

HasClose(s, i) == \E j \in (i + 1)..Len(s) : s[j] = CloseTag

\* re.search(r"<gemini-cli>(.*?)</gemini-cli>", s, re.DOTALL): the leftmost
\* opening tag that has a closing tag after it, up to the nearest closing tag
re_search(s) ==
    IF \E i \in 1..Len(s) : s[i] = OpenTag /\ HasClose(s, i)
    THEN LET i == CHOOSE k \in 1..Len(s) :
                     /\ s[k] = OpenTag /\ HasClose(s, k)
                     /\ \A l \in 1..(k - 1) : ~(s[l] = OpenTag /\ HasClose(s, l))
             j == CHOOSE k \in (i + 1)..Len(s) :
                     /\ s[k] = CloseTag
                     /\ \A l \in (i + 1)..(k - 1) : s[l] # CloseTag
         IN  [start |-> i, end |-> j]
    ELSE NoMatch

\* match.group(1)
group1(s, m) == SubSeq(s, m.start + 1, m.end - 1)

\* re.sub(r"<gemini-cli>.*?</gemini-cli>", "", s, flags=re.DOTALL): every
\* match is removed, not only the first
RECURSIVE re_sub(_)
re_sub(s) ==
    LET m == re_search(s)
    IN  IF m = NoMatch THEN s
        ELSE SubSeq(s, 1, m.start - 1) \o re_sub(SliceFrom(s, m.end))

----------------------------------------------------------------------------
\* Collaborators

NoOutput == <<"#none">>

\* the model service fails (network, quota, safety)
ServiceError == <<"#error">>

\* what the model service answers
ModelOutputs ==
    { <<"t">>,
      <<OpenTag, "i", CloseTag, "\n", "t">>,
      <<OpenTag, " ", "i", " ", CloseTag>>,
      <<OpenTag, "i", CloseTag, "\n">>,
      <<"t", OpenTag, "i", CloseTag, "t", OpenTag, "j", CloseTag>>,
      <<OpenTag, "i">> }

ServiceAnswers == ModelOutputs \cup {ServiceError}

\* llm_api.py:36: def gemini_chat(prompt: str, /, *, model: str = ...): one
\* positional parameter, the other is keyword-only
GeminiChatPositional == 1

SYSTEM_PROMPT == <<"#system_prompt">>

gemini_chatWithSystemPrompt(args, svc) ==
    IF svc = ServiceError
    THEN [raised |-> "GoogleGenAiError", text |-> NoOutput]
    ELSE [raised |-> "none", text |-> svc]

\* gemini_chat(*args): Python binds the arguments before the body runs, so a
\* second positional argument raises TypeError and the service is not called
gemini_chat(args, svc) ==
    IF Len(args) > GeminiChatPositional
    THEN [raised |-> "TypeError", text |-> NoOutput]
    ELSE IF svc = ServiceError
    THEN [raised |-> "GoogleGenAiError", text |-> NoOutput]
    ELSE [raised |-> "none", text |-> svc]

\* what the subprocess of a shell command prints, or that starting it fails
ShellResults == {"both", "stdout", "stderr", "silent", "exception"}

\* execute_command(command, workdir), command.py:7-77: always returns a text.
\* ran tells whether the subprocess was started.
execute_command(command, workdir, ds, sh) ==
    LET cwd == resolve(workdir, ds)
    IN  IF ~is_dir(cwd, ds)
        THEN [text |-> [fmt |-> "shell_no_directory", arg |-> PathStr(cwd)],
              ran |-> FALSE]
        ELSE [text |-> [fmt |-> sh, arg |-> command], ran |-> sh # "exception"]

\* how the gemini executable ends
ToolResults == {"ok", "not_found", "os_error", "nonzero"}

\* run_gemini(prompt, workdir), gemini.py:5-65
run_gemini(prompt, workdir, ds, tool) ==
    LET cwd == resolve(workdir, ds)
    IN  IF ~is_dir(cwd, ds)
        THEN [raised |-> "FileNotFoundError", ran |-> FALSE,
              text |-> [fmt |-> "workdir_not_directory", arg |-> PathStr(cwd)]]
        ELSE IF tool = "not_found"
        THEN [raised |-> "FileNotFoundError", ran |-> FALSE,
              text |-> [fmt |-> "executable_not_found", arg |-> <<>>]]
        ELSE IF tool = "os_error"
        THEN [raised |-> "RuntimeError", ran |-> FALSE,
              text |-> [fmt |-> "os_error", arg |-> <<>>]]
        ELSE IF tool = "nonzero"
        THEN [raised |-> "RuntimeError", ran |-> TRUE,
              text |-> [fmt |-> "exit_status", arg |-> <<>>]]
        ELSE [raised |-> "none", ran |-> TRUE,
              text |-> [fmt |-> "stdout", arg |-> prompt]]

\* main.py:203, load_history(user_id, hours_limit=12)
HoursLimit == 12

\* test.py:39, the default of CONTEXT_TIME_LIMIT_HOURS
context_time_limit_hours == 1

load_historyInclusive(h, user_id, hours_limit, now) ==
    LET Recent(entry) == entry.timestamp >= now - hours_limit
        kept == SelectSeq(h[user_id], Recent)
    IN  [i \in 1..Len(kept) |->
            [role |-> kept[i].role, parts |-> kept[i].content]]

\* load_history(user_id, hours_limit), history.py:37-65: the entries whose
\* timestamp is after now - hours_limit, in file order, as turns
load_history(h, user_id, hours_limit, now) ==
    LET Recent(entry) == entry.timestamp > now - hours_limit
        kept == SelectSeq(h[user_id], Recent)
    IN  [i \in 1..Len(kept) |->
            [role |-> kept[i].role, parts |-> kept[i].content]]

\* save_history(user_id, user_message, model_response), history.py:10-34:
\* two lines appended to the user's file with one timestamp
save_history(h, user_id, user_message, model_response, now) ==
    [h EXCEPT ![user_id] = @ \o
        << [timestamp |-> now, role |-> "user", content |-> user_message],
           [timestamp |-> now, role |-> "model",
            content |-> model_response] >>]

----------------------------------------------------------------------------
\* Python dict

DictGetAbsentCwd(d, k, default) ==
    IF k \in DOMAIN d THEN d[k] ELSE [abs |-> TRUE, parts |-> ProcessCwd]

\* d.get(k, default)
DictGet(d, k, default) == IF k \in DOMAIN d THEN d[k] ELSE default

DictSetEvery(d, k, v) == [x \in DOMAIN d \cup {k} |-> v]

\* d[k] = v
DictSet(d, k, v) ==
    [x \in DOMAIN d \cup {k} |-> IF x = k THEN v ELSE d[x]]

----------------------------------------------------------------------------
\* Inbound messages

\* the workdir commands and the texts that begin like one
WorkdirMessages ==
    { <<"!", "p", "w", "d">>,
      <<"!", "c", "d">>,
      <<"!", "c", "d", " ">>,
      <<"!", "c", "d", " ", "s">>,
      <<"!", "c", "d", " ", ".", ".">>,
      <<"!", "c", "d", " ", ".", ".", "/", "h">>,
      <<"!", "c", "d", " ", "x", "/", ".", ".">>,
      <<"!", "c", "d", " ", "/", "a", "/", "s">>,
      <<"!", "c", "d", " ", "/", "x">>,
      <<"!", "c", "d", " ", "~">>,
      <<"!", "c", "d", "x">>,
      <<"!", "c", "d", "\t", "s">> }

\* other texts that start with "!"
ShellMessages == { <<"!", "x">>, <<"!", "p", "w", "d", "x">> }

\* texts that do not start with "!"
ChatMessages == { <<"x">>, <<" ", "!", "p", "w", "d">> }

NoEffect == [op |-> "none", dir |-> <<>>]

\* directory y is d or lies under d
Under(d, y) == Len(y) >= Len(d) /\ SubSeq(y, 1, Len(d)) = d

\* what a subprocess may do to the directories: nothing, create one whose
\* parent exists, or remove one with everything under it
FsEffects(ds) ==
    {NoEffect}
    \cup {[op |-> "mkdir", dir |-> d] :
            d \in {x \in DirUniverse \ ds : Parent(x) \in ds}}
    \cup {[op |-> "rmtree", dir |-> d] : d \in ds \ {<<>>}}

ApplyFs(ds, fx) ==
    IF fx.op = "mkdir" THEN ds \cup {fx.dir}
    ELSE IF fx.op = "rmtree" THEN {y \in ds : ~Under(fx.dir, y)}
    ELSE ds

\* app.run(port=5000, debug=True), main.py:263: the development server
\* handles each request in a thread of its own
Threads == {"T1", "T2"}

NoReply == [fmt |-> "none", arg |-> <<>>]

\* a thread that handles no event
IdleThread ==
    [pc |-> "idle", user |-> "none", text |-> <<>>, workdir |-> NoPath,
     reply |-> NoReply, raised |-> "none"]

\* one call of handle_message as the log records it
Call(op, to, text, ok, wd) ==
    [op |-> op, to |-> to, text |-> text, ok |-> ok, wd |-> wd]

----------------------------------------------------------------------------
\* Initial state: no session, no history, nothing handled yet

Init ==
    /\ WORK_DIRECTORIES = [u \in {} |-> NoPath]
    /\ dirs = InitDirs
    /\ fsChanges = 0
    /\ history = [u \in Users |-> <<>>]
    /\ event = [user |-> "none", text |-> <<>>, reply_token |-> "none",
                svc |-> NoOutput]
    /\ pre = [u \in {} |-> NoPath]
    /\ route = "none"
    /\ log = <<>>
    /\ raised = "none"
    /\ committed = [u \in Users |-> <<>>]
    /\ repeat = "no"
    /\ follow = <<>>
    /\ threads = [t \in Threads |-> IdleThread]
    /\ clock = 0
    /\ request = <<>>

----------------------------------------------------------------------------
\* handle_message, main.py:153-256

CommandBranchElseReset(command) ==
    IF startswith(command, <<"c", "d">>)
    THEN IF startswith(command, <<"c", "d", " ">>) THEN "change" ELSE "reset"
    ELSE IF command = <<"p", "w", "d">> THEN "query"
    ELSE "direct"

\* main.py:167-190: the branch a stripped command text takes.  "unbound" is
\* the path on which no branch assigns reply_text.
CommandBranch(command) ==
    IF startswith(command, <<"c", "d">>)
    THEN IF command = <<"c", "d">> THEN "reset"
         ELSE IF startswith(command, <<"c", "d", " ">>) THEN "change"
         ELSE "unbound"
    ELSE IF command = <<"p", "w", "d">> THEN "query"
    ELSE "direct"

\* main.py:174-179: the directory a !cd argument names
NewDir(command, workdir) ==
    LET new_dir_str == strip(SliceFrom(command, 3))
        new_dir == expanduser(Path(new_dir_str))
    IN  IF ~new_dir.abs THEN JoinPath(workdir, new_dir) ELSE new_dir

\* the session workdir of a user: the stored one, the default without one
SessionWorkdir(store, user_id) ==
    IF user_id \in DOMAIN store THEN store[user_id] ELSE DEFAULT_WORKDIR

\* the argument of a "!cd <path>" text
CdArgument(text) == expanduser(Path(strip(SliceFrom(strip(SliceFrom(text, 1)), 3))))

\* the directory a "!cd <path>" text asks for in a session at start
CdTarget(text, start) ==
    IF CdArgument(text).abs THEN CdArgument(text)
    ELSE [abs |-> TRUE, parts |-> start.parts \o CdArgument(text).parts]

\* text is a !cd with a relative path that names a directory from start
ValidRelativeCd(text, start, ds) ==
    /\ ~CdArgument(text).abs
    /\ is_dir(CdTarget(text, start), ds)

\* the absolute path of a !cd target with ".." collapsed
CdExpected(text, start) ==
    [abs |-> TRUE, parts |-> LexNorm(<<>>, CdTarget(text, start).parts)]

ResetDirKeep(store, user_id) == store

\* main.py:170: WORK_DIRECTORIES[user_id] = DEFAULT_WORKDIR
ResetDir(store, user_id) == DictSet(store, user_id, DEFAULT_WORKDIR)

ChangeDirUnchecked(store, user_id, new_dir, ds) ==
    DictSet(store, user_id, resolve(new_dir, ds))

\* main.py:181-185: the store is written only when new_dir is a directory
ChangeDir(store, user_id, new_dir, ds) ==
    IF is_dir(new_dir, ds)
    THEN DictSet(store, user_id, resolve(new_dir, ds))
    ELSE store

QueryTextDefault(workdir) == [fmt |-> "pwd", arg |-> PathStr(DEFAULT_WORKDIR)]

\* main.py:188: the reply of !pwd
QueryText(workdir) == [fmt |-> "pwd", arg |-> PathStr(workdir)]

\* main.py:163-199: a text that starts with "!".  net tells whether the
\* delivery succeeds, sh and fx what the subprocess of a direct command does.
CommandPath(user_id, user_message, reply_token, net, sh, fx) ==
    /\ startswith(user_message, <<"!">>)
    /\ fx.op # "none" => fsChanges < MaxFsChanges
    /\ LET workdir == DictGet(WORK_DIRECTORIES, user_id, DEFAULT_WORKDIR)
           command == strip(SliceFrom(user_message, 1))
           branch == CommandBranch(command)
           new_dir == NewDir(command, workdir)
           found == is_dir(new_dir, dirs)
           run == execute_command(command, workdir, dirs, sh)
           store == IF branch = "reset"
                    THEN ResetDir(WORK_DIRECTORIES, user_id)
                    ELSE IF branch = "change"
                    THEN ChangeDir(WORK_DIRECTORIES, user_id, new_dir, dirs)
                    ELSE WORK_DIRECTORIES
           reply_text ==
               IF branch = "reset"
               THEN [fmt |-> "reset", arg |-> PathStr(DEFAULT_WORKDIR)]
               ELSE IF branch = "change" /\ found
               THEN [fmt |-> "changed", arg |-> PathStr(store[user_id])]
               ELSE IF branch = "change"
               THEN [fmt |-> "not_found", arg |-> PathStr(new_dir)]
               ELSE IF branch = "query"
               THEN QueryText(workdir)
               ELSE run.text
           ranShell == branch = "direct" /\ run.ran
           shellLog == IF branch = "direct"
                       THEN <<Call("execute_command", user_id,
                                   [fmt |-> "command", arg |-> command],
                                   run.ran, workdir)>>
                       ELSE <<>>
       IN  /\ branch # "direct" =>
                sh = "silent" /\ fx.op = "none"
           /\ ~ranShell => fx.op = "none"
           /\ branch = "unbound" => net
           /\ WORK_DIRECTORIES' = store
           /\ dirs' = ApplyFs(dirs, fx)
           /\ fsChanges' = IF fx.op = "none" THEN fsChanges ELSE fsChanges + 1
           /\ route' = branch
           /\ IF branch = "unbound"
              THEN /\ log' = shellLog
                   /\ raised' = "UnboundLocalError"
              ELSE /\ log' = Append(shellLog,
                                    Call("reply", reply_token, reply_text, net,
                                         workdir))
                   /\ raised' = IF net THEN "none" ELSE "ApiException"
           /\ committed' =
                IF branch = "reset" \/ (branch = "change" /\ found)
                THEN [committed EXCEPT ![user_id] = reply_text.arg]
                ELSE committed
           /\ repeat' =
                IF /\ route = "change" /\ branch = "change"
                   /\ event.text = user_message
                   /\ SessionWorkdir(pre, event.user) =
                        SessionWorkdir(WORK_DIRECTORIES, user_id)
                   /\ ValidRelativeCd(user_message,
                                      SessionWorkdir(WORK_DIRECTORIES, user_id),
                                      dirs)
                THEN IF SessionWorkdir(store, user_id) =
                        SessionWorkdir(WORK_DIRECTORIES, event.user)
                     THEN "same" ELSE "differ"
                ELSE "no"
           /\ follow' =
                IF /\ branch = "query" /\ route = "change"
                   /\ event.user = user_id
                   /\ ValidRelativeCd(event.text,
                                      SessionWorkdir(pre, event.user), dirs)
                THEN PathStr(CdExpected(event.text,
                                        SessionWorkdir(pre, event.user)))
                ELSE <<>>
    /\ event' = [user |-> user_id, text |-> user_message,
                 reply_token |-> reply_token, svc |-> NoOutput]
    /\ pre' = WORK_DIRECTORIES
    /\ request' = <<>>
    /\ UNCHANGED <<history, threads, clock>>

\* main.py:208-256: what follows a model output ai_response: the directive
\* is extracted, the commentary replied, the tool run, its result delivered.
\* net1 and net2 tell whether the first and the second delivery succeed; a
\* failed delivery raises and ends the handler.
AfterCompletion(user_id, reply_token, workdir, ai_response, ds, tool, net1, net2) ==
    LET match == re_search(ai_response)
        gemini_prompt == strip(group1(ai_response, match))
        supplement_message == strip(re_sub(ai_response))
        run == run_gemini(gemini_prompt, workdir, ds, tool)
        result_message ==
            IF run.raised = "none"
            THEN [fmt |-> "cli_result", arg |-> run.text.arg]
            ELSE [fmt |-> "cli_error", arg |-> <<run.text.fmt>> \o run.text.arg]
        toolCall == Call("run_gemini", user_id,
                         [fmt |-> "prompt", arg |-> gemini_prompt], run.ran,
                         workdir)
        first == Call("reply", reply_token,
                      [fmt |-> "text", arg |-> supplement_message], net1, workdir)
    IN  IF match = NoMatch
        THEN [log |-> <<Call("reply", reply_token,
                             [fmt |-> "text", arg |-> ai_response], net1,
                             workdir)>>,
              raised |-> IF net1 THEN "none" ELSE "ApiException"]
        ELSE IF supplement_message # <<>> /\ ~net1
        THEN [log |-> <<first>>, raised |-> "ApiException"]
        ELSE IF supplement_message # <<>>
        THEN [log |-> <<first, toolCall,
                        Call("push", user_id, result_message, net2, workdir)>>,
              raised |-> IF net2 THEN "none" ELSE "ApiException"]
        ELSE [log |-> <<toolCall,
                        Call("reply", reply_token, result_message, net1,
                             workdir)>>,
              raised |-> IF net1 THEN "none" ELSE "ApiException"]

\* main.py:202-256: a text that does not start with "!".  svc is what the
\* model service would answer; how the gemini executable ends and whether
\* the deliveries succeed is open.
ConversationalPath(user_id, user_message, reply_token, svc) ==
    /\ ~startswith(user_message, <<"!">>)
    /\ LET workdir == DictGet(WORK_DIRECTORIES, user_id, DEFAULT_WORKDIR)
           loaded == load_history(history, user_id, HoursLimit, clock)
           turn == [role |-> "user", parts |-> user_message]
           chat == gemini_chat(<<Append(loaded, turn), SYSTEM_PROMPT>>, svc)
       IN  /\ request' = Append(loaded, turn)
           /\ IF chat.raised # "none"
              THEN /\ raised' = chat.raised
                   /\ log' = <<>>
                   /\ UNCHANGED history
              ELSE \E tool \in ToolResults, net1 \in BOOLEAN, net2 \in BOOLEAN :
                     LET rest == AfterCompletion(user_id, reply_token, workdir,
                                                 chat.text, dirs, tool, net1,
                                                 net2)
                     IN  /\ history' = save_history(history, user_id,
                                                    user_message, chat.text,
                                                    clock)
                         /\ log' = <<Call("save_history", user_id,
                                          [fmt |-> "text", arg |-> chat.text],
                                          TRUE, workdir)>> \o rest.log
                         /\ raised' = rest.raised
    /\ route' = "conversational"
    /\ event' = [user |-> user_id, text |-> user_message,
                 reply_token |-> reply_token, svc |-> svc]
    /\ pre' = WORK_DIRECTORIES
    /\ repeat' = "no"
    /\ follow' = <<>>
    /\ UNCHANGED <<WORK_DIRECTORIES, dirs, fsChanges, committed, threads,
                   clock>>

Next ==
    \/ \E user_id \in Users, user_message \in WorkdirMessages,
          reply_token \in Tokens, net \in BOOLEAN :
            CommandPath(user_id, user_message, reply_token, net, "silent",
                        NoEffect)
    \/ \E user_id \in Users, user_message \in ShellMessages,
          reply_token \in Tokens, sh \in ShellResults \ {"silent"} :
            CommandPath(user_id, user_message, reply_token, TRUE, sh, NoEffect)
    \/ \E user_id \in Users, user_message \in ShellMessages,
          reply_token \in Tokens, net \in BOOLEAN, fx \in FsEffects(dirs) :
            CommandPath(user_id, user_message, reply_token, net, "silent", fx)
    \/ \E user_id \in Users, user_message \in ChatMessages,
          reply_token \in Tokens, svc \in ServiceAnswers :
            ConversationalPath(user_id, user_message, reply_token, svc)

Spec == Init /\ [][Next]_vars

----------------------------------------------------------------------------
\* The handler of test.py, a second webhook application over the same
\* history files, without session workdirs and without commands

\* test.py:38
system_prompt == <<"#system_prompt_test">>

\* every text reaches the same code in test.py
TestMessages == WorkdirMessages \cup ShellMessages \cup ChatMessages

\* test.py:74-107.  svc is what the model service would answer, netError
\* whether the delivery of the except clause succeeds; a failure of it
\* leaves the handler.  Whether the delivery and the save inside the try
\* succeed is open.
handle_message(user_id, user_message, reply_token, svc, netError) ==
    /\ LET loaded == load_history(history, user_id, context_time_limit_hours,
                                  clock)
           turn == [role |-> "user", parts |-> user_message]
           chat == gemini_chat(<<Append(loaded, turn), system_prompt>>, svc)
           answer == Call("reply", reply_token,
                          [fmt |-> "text", arg |-> chat.text], TRUE, NoPath)
           notice == Call("reply", reply_token,
                          [fmt |-> "error", arg |-> <<>>], netError, NoPath)
           save(ok) == Call("save_history", user_id,
                            [fmt |-> "text", arg |-> chat.text], ok, NoPath)
           afterNotice == IF netError THEN "none" ELSE "ApiException"
       IN  /\ request' = Append(loaded, turn)
           /\ IF chat.raised # "none"
              THEN /\ log' = <<notice>>
                   /\ raised' = afterNotice
                   /\ UNCHANGED history
              ELSE \E net \in BOOLEAN, disk \in BOOLEAN :
                     IF ~net
                     THEN /\ log' = <<[answer EXCEPT !.ok = FALSE], notice>>
                          /\ raised' = afterNotice
                          /\ UNCHANGED history
                     ELSE IF ~disk
                     THEN /\ log' = <<answer, save(FALSE), notice>>
                          /\ raised' = afterNotice
                          /\ UNCHANGED history
                     ELSE /\ netError
                          /\ log' = <<answer, save(TRUE)>>
                          /\ raised' = "none"
                          /\ history' = save_history(history, user_id,
                                                     user_message, chat.text,
                                                     clock)
    /\ route' = "test"
    /\ event' = [user |-> user_id, text |-> user_message,
                 reply_token |-> reply_token, svc |-> svc]
    /\ UNCHANGED <<WORK_DIRECTORIES, dirs, fsChanges, pre, committed, repeat,
                   follow, threads, clock>>

NextTest ==
    \E user_id \in Users, user_message \in TestMessages,
       reply_token \in Tokens, svc \in ServiceAnswers, netError \in BOOLEAN :
        handle_message(user_id, user_message, reply_token, svc, netError)

SpecTest == Init /\ [][NextTest]_vars

----------------------------------------------------------------------------
\* handle_message of main.py in the threads of the server: the session
\* workdir is read at line 160 and the store written at line 170 or 182,
\* with no lock between them

\* the workdir commands, which read and write the store
ThreadMessages == WorkdirMessages

\* main.py:163-190 for a workdir command: the store and the reply text that
\* result from the store as it is now and the workdir read before
WorkdirCommand(store, user_id, user_message, workdir, ds) ==
    LET command == strip(SliceFrom(user_message, 1))
        branch == CommandBranch(command)
        new_dir == NewDir(command, workdir)
        found == is_dir(new_dir, ds)
        written == IF branch = "reset" THEN ResetDir(store, user_id)
                   ELSE IF branch = "change"
                   THEN ChangeDir(store, user_id, new_dir, ds)
                   ELSE store
    IN  [store |-> written,
         reply |->
            IF branch = "reset"
            THEN [fmt |-> "reset", arg |-> PathStr(DEFAULT_WORKDIR)]
            ELSE IF branch = "change" /\ found
            THEN [fmt |-> "changed", arg |-> PathStr(written[user_id])]
            ELSE IF branch = "change"
            THEN [fmt |-> "not_found", arg |-> PathStr(new_dir)]
            ELSE IF branch = "query" THEN QueryText(workdir)
            ELSE NoReply]

\* main.py:155-160: a thread takes an event and reads the session workdir
ThreadRead(t, user_id, user_message) ==
    /\ threads[t].pc = "idle"
    /\ startswith(user_message, <<"!">>)
    /\ threads' = [threads EXCEPT ![t] =
            [pc |-> "read", user |-> user_id, text |-> user_message,
             workdir |-> DictGet(WORK_DIRECTORIES, user_id, DEFAULT_WORKDIR),
             reply |-> NoReply, raised |-> "none"]]
    /\ UNCHANGED <<WORK_DIRECTORIES, dirs, fsChanges, history, event, pre,
                   route, log, raised, committed, repeat, follow, clock,
                   request>>

\* main.py:163-199: the thread runs the command with the workdir it read,
\* writes the store and replies; net tells whether the delivery succeeds
ThreadCommit(t, net) ==
    /\ threads[t].pc = "read"
    /\ LET th == threads[t]
           r == WorkdirCommand(WORK_DIRECTORIES, th.user, th.text, th.workdir,
                               dirs)
       IN  /\ r.reply = NoReply => net
           /\ WORK_DIRECTORIES' = r.store
           /\ threads' = [threads EXCEPT ![t] =
                   [th EXCEPT !.pc = "done", !.reply = r.reply,
                              !.raised = IF r.reply = NoReply
                                         THEN "UnboundLocalError"
                                         ELSE IF net THEN "none"
                                         ELSE "ApiException"]]
    /\ UNCHANGED <<dirs, fsChanges, history, event, pre, route, log, raised,
                   committed, repeat, follow, clock, request>>

NextThreads ==
    \/ \E t \in Threads, user_id \in Users, user_message \in ThreadMessages :
            ThreadRead(t, user_id, user_message)
    \/ \E t \in Threads, net \in BOOLEAN : ThreadCommit(t, net)

SpecThreads == Init /\ [][NextThreads]_vars

----------------------------------------------------------------------------
\* The history files over time: handle_message of main.py, handled one
\* message at a time, together with save_history called as main.py:205 and
\* test.py:97 call it, and the clock that load_history compares with

\* what save_history is given as the user's message and the model's output
SavedMessages == {<<"x">>}

SavedAnswers == {<<"t">>}

\* history.py:25, history.py:53: datetime.now(JST) moves on by half the
\* window of main.py or by the whole window
Tick(hours) ==
    /\ hours \in {HoursLimit \div 2, HoursLimit}
    /\ clock + hours <= MaxClock
    /\ clock' = clock + hours
    /\ UNCHANGED <<WORK_DIRECTORIES, dirs, fsChanges, history, event, pre,
                   route, log, raised, committed, repeat, follow, threads,
                   request>>

\* history.py:10-34: one call of save_history at the present time
SaveHistory(user_id, user_message, model_response) ==
    /\ Len(history[user_id]) < 2 * MaxPairs
    /\ history' = save_history(history, user_id, user_message, model_response,
                               clock)
    /\ UNCHANGED <<WORK_DIRECTORIES, dirs, fsChanges, event, pre, route, log,
                   raised, committed, repeat, follow, threads, clock, request>>

NextHistory ==
    \/ \E hours \in {HoursLimit \div 2, HoursLimit} : Tick(hours)
    \/ \E user_id \in Users, user_message \in SavedMessages,
          model_response \in SavedAnswers :
            SaveHistory(user_id, user_message, model_response)
    \/ \E user_id \in Users, user_message \in ChatMessages,
          reply_token \in Tokens, svc \in SavedAnswers \cup {ServiceError} :
            ConversationalPath(user_id, user_message, reply_token, svc)
    \/ \E user_id \in Users,
          user_message \in {<<"!", "p", "w", "d">>, <<"!", "x">>},
          reply_token \in Tokens :
            CommandPath(user_id, user_message, reply_token, TRUE, "silent",
                        NoEffect)

SpecHistory == Init /\ [][NextHistory]_vars

----------------------------------------------------------------------------
\* Properties of the interaction handled last

Handled == route # "none"

IsDelivery(c) == c.op \in {"reply", "push"}

IsTokenReply(c) == c.op = "reply" /\ c.to = event.reply_token

Deliveries == SelectSeq(log, IsDelivery)

TokenReplies == SelectSeq(log, IsTokenReply)

IsToolRun(c) == c.op = "run_gemini"

IsSave(c) == c.op = "save_history"

\* the log is one reply with the reply token that carries text
OneReply(text) ==
    /\ Len(log) = 1
    /\ log[1].op = "reply"
    /\ log[1].to = event.reply_token
    /\ log[1].text = text

\* the model service's answer holds a directive
HasDirective == event.svc \in ModelOutputs /\ re_search(event.svc) # NoMatch

Commentary == strip(re_sub(event.svc))

\* C1: every handled text message is answered with the reply token exactly
\* once, and every other delivery of the interaction is a push to the user.
C1_ReplyTokenExactlyOnce ==
    Handled =>
        /\ Len(TokenReplies) = 1
        /\ \A i \in 1..Len(Deliveries) :
              IsTokenReply(Deliveries[i])
              \/ (Deliveries[i].op = "push" /\ Deliveries[i].to = event.user)

\* C2: when the model answers with a directive and a non-empty commentary,
\* the interaction saves one (user, model) pair, replies the commentary with
\* the reply token, then runs the tool, then pushes the result to the user.
C2_CommentaryThenToolResult ==
    (route = "conversational" /\ HasDirective /\ Commentary # <<>>) =>
        /\ Len(SelectSeq(log, IsSave)) = 1
        /\ Len(Deliveries) = 2
        /\ IsTokenReply(Deliveries[1])
        /\ Deliveries[1].text = [fmt |-> "text", arg |-> Commentary]
        /\ Deliveries[2].op = "push" /\ Deliveries[2].to = event.user
        /\ \E i, j, k \in 1..Len(log) :
              /\ i < j /\ j < k
              /\ IsTokenReply(log[i]) /\ IsToolRun(log[j]) /\ log[k].op = "push"

\* C3: when the model-completion call raises, one error message is replied
\* with the reply token, the tool is not run and no history is saved.
C3_ModelFailureReplied ==
    (route = "conversational" /\ raised \in {"TypeError", "GoogleGenAiError"}) =>
        /\ Len(Deliveries) = 1
        /\ IsTokenReply(Deliveries[1])
        /\ Deliveries[1].text.fmt = "error"
        /\ SelectSeq(log, IsToolRun) = <<>>
        /\ SelectSeq(log, IsSave) = <<>>

\* the outcome the command syntax gives a text: pwd is a query, cd a reset,
\* cd followed by a space and an argument a change, any other command text a
\* direct shell command
ClaimedRoute(text) ==
    IF ~startswith(text, <<"!">>) THEN "conversational"
    ELSE LET command == strip(SliceFrom(text, 1))
         IN  IF command = <<"p", "w", "d">> THEN "query"
             ELSE IF command = <<"c", "d">> THEN "reset"
             ELSE IF startswith(command, <<"c", "d", " ">>) THEN "change"
             ELSE "direct"

IsShellRun(c) == c.op = "execute_command"

\* C4: classification is total: every text takes the outcome of the command
\* syntax, a direct command reaches execute_command, and a reply text is
\* always defined.
C4_ClassificationTotal ==
    Handled =>
        /\ route = ClaimedRoute(event.text)
        /\ raised # "UnboundLocalError"
        /\ route = "direct" => Len(SelectSeq(log, IsShellRun)) = 1

\* the directory the !cd handled last asked for
Target == CdTarget(event.text, SessionWorkdir(pre, event.user))

\* C5: a !cd <path> whose target is not an existing directory leaves the
\* store as it was and replies one error message that names the path.
C5_FailedCdKeepsWorkdir ==
    (route = "change" /\ ~is_dir(Target, dirs)) =>
        /\ WORK_DIRECTORIES = pre
        /\ OneReply([fmt |-> "not_found", arg |-> PathStr(Target)])

C5_Witness ==
    /\ route = "change"
    /\ ~is_dir(Target, dirs)
    /\ event.user \in DOMAIN pre
    /\ pre[event.user] # DEFAULT_WORKDIR
    /\ log # <<>>

\* the absolute path of Target with ".." collapsed
Expected == CdExpected(event.text, SessionWorkdir(pre, event.user))

RelativeCdDone ==
    /\ route = "change"
    /\ ValidRelativeCd(event.text, SessionWorkdir(pre, event.user), dirs)

\* C6: a !cd with a relative path that names a directory from the session
\* workdir stores the resolved absolute path and replies it, and a !pwd of
\* the same user handled next reports that path.
C6_RelativeCdFromSessionWorkdir ==
    /\ RelativeCdDone =>
        /\ event.user \in DOMAIN WORK_DIRECTORIES
        /\ WORK_DIRECTORIES[event.user] = Expected
        /\ OneReply([fmt |-> "changed", arg |-> PathStr(Expected)])
    /\ (route = "query" /\ follow # <<>>) =>
        OneReply([fmt |-> "pwd", arg |-> follow])

C6_Witness ==
    /\ route = "query"
    /\ follow \notin {<<>>, PathStr(DEFAULT_WORKDIR)}
    /\ event.user \in DOMAIN pre
    /\ PathStr(pre[event.user]) = follow
    /\ log # <<>>

C8_PwdReportsSessionWorkdir ==
    route = "query" =>
        /\ OneReply([fmt |-> "pwd",
                     arg |-> IF committed[event.user] = <<>>
                             THEN PathStr(DEFAULT_WORKDIR)
                             ELSE committed[event.user]])
        /\ WORK_DIRECTORIES = pre

C8_Witness ==
    /\ route = "query"
    /\ committed[event.user] \notin {<<>>, PathStr(DEFAULT_WORKDIR)}
    /\ log # <<>>

\* C9: after !cd without an argument the user's session workdir is the
\* default workdir and the reply reports the default workdir.
C9_ResetToDefault ==
    route = "reset" =>
        /\ SessionWorkdir(WORK_DIRECTORIES, event.user) = DEFAULT_WORKDIR
        /\ OneReply([fmt |-> "reset", arg |-> PathStr(DEFAULT_WORKDIR)])

C9_Witness ==
    /\ route = "reset"
    /\ event.user \in DOMAIN pre
    /\ pre[event.user] # DEFAULT_WORKDIR
    /\ log # <<>>

\* C10: when the model answers with a directive and an empty commentary,
\* the tool is run first and its result is the one delivery, sent with the
\* reply token; nothing is pushed.
C10_ToolResultWithReplyToken ==
    (route = "conversational" /\ HasDirective /\ Commentary = <<>>) =>
        /\ Len(Deliveries) = 1
        /\ IsTokenReply(Deliveries[1])
        /\ Deliveries[1].text.fmt \in {"cli_result", "cli_error"}
        /\ \E i, j \in 1..Len(log) :
              i < j /\ IsToolRun(log[i]) /\ IsTokenReply(log[j])

\* C11: when the model answers without a directive pair, the tool is not
\* run and the one delivery of the interaction is the model's output,
\* unchanged, sent with the reply token.
C11_PlainAnswerRepliedUnchanged ==
    (/\ route = "conversational"
     /\ event.svc \in ModelOutputs
     /\ re_search(event.svc) = NoMatch) =>
        /\ SelectSeq(log, IsToolRun) = <<>>
        /\ Len(Deliveries) = 1
        /\ IsTokenReply(Deliveries[1])
        /\ Deliveries[1].text = [fmt |-> "text", arg |-> event.svc]

\* the session workdir the interaction handled last started from is not an
\* existing directory, so a tool run in it fails
StaleWorkdir == ~is_dir(SessionWorkdir(pre, event.user), dirs)

\* C12: whatever the tool run does, no exception of it leaves the handler:
\* after a directive the tool is run once and the last delivery is its
\* result or a prefixed error message, the error message when the workdir is
\* not an existing directory, sent with the reply token when the commentary
\* is empty and pushed to the user otherwise.
C12_ToolFailureDelivered ==
    (route = "conversational" /\ HasDirective) =>
        /\ Len(SelectSeq(log, IsToolRun)) = 1
        /\ raised \in {"none", "ApiException"}
        /\ Deliveries # <<>>
        /\ LET last == Deliveries[Len(Deliveries)]
           IN  /\ last.text.fmt \in {"cli_result", "cli_error"}
               /\ StaleWorkdir => last.text.fmt = "cli_error"
               /\ IF Commentary = <<>>
                  THEN IsTokenReply(last)
                  ELSE last.op = "push" /\ last.to = event.user

\* C13: when the model service answers a conversational message, the user
\* message and the model's output are saved to the history once, as the
\* user's two newest entries, before every delivery and before the tool run.
C13_SavedOnceBeforeDelivery ==
    (route = "conversational" /\ event.svc \in ModelOutputs) =>
        /\ Len(SelectSeq(log, IsSave)) = 1
        /\ IsSave(log[1])
        /\ log[1].text = [fmt |-> "text", arg |-> event.svc]
        /\ LET h == history[event.user]
           IN  /\ Len(h) >= 2
               /\ h[Len(h) - 1].role = "user"
               /\ h[Len(h) - 1].content = event.text
               /\ h[Len(h)].role = "model"
               /\ h[Len(h)].content = event.svc

\* C14: handling a message of one user, whether it is answered or raises,
\* leaves the store entry of every other user as it was: absent if it was
\* absent, the same workdir otherwise.
C14_OtherUsersUntouched ==
    Handled =>
        \A other \in Users \ {event.user} :
            /\ other \in DOMAIN WORK_DIRECTORIES <=> other \in DOMAIN pre
            /\ other \in DOMAIN pre => WORK_DIRECTORIES[other] = pre[other]

C14_Witness ==
    /\ route \in {"reset", "change"}
    /\ WORK_DIRECTORIES # pre
    /\ \E other \in Users \ {event.user} :
          /\ other \in DOMAIN pre
          /\ pre[other] # DEFAULT_WORKDIR
          /\ pre[other] # WORK_DIRECTORIES[event.user]

FirstSpanRemoved(text) ==
    LET m == re_search(text)
    IN  SubSeq(text, 1, m.start - 1) \o SliceFrom(text, m.end)

\* the model service's answer holds at least two directive pairs
TwoDirectives ==
    HasDirective /\ re_search(FirstSpanRemoved(event.svc)) # NoMatch

\* C16: when the model answers with two directive pairs, the tool is run
\* once, with the trimmed inner text of the first pair, and the commentary
\* delivered first is the answer with only the first tagged span removed, so
\* it still holds the second span.
C16_OnlyFirstDirectiveRemoved ==
    (route = "conversational" /\ TwoDirectives) =>
        /\ Len(SelectSeq(log, IsToolRun)) = 1
        /\ SelectSeq(log, IsToolRun)[1].text =
              [fmt |-> "prompt",
               arg |-> strip(group1(event.svc, re_search(event.svc)))]
        /\ Deliveries # <<>>
        /\ Deliveries[1].text =
              [fmt |-> "text", arg |-> strip(FirstSpanRemoved(event.svc))]
        /\ \E i \in 1..Len(Deliveries[1].text.arg) :
              Deliveries[1].text.arg[i] = OpenTag

\* the two handlers run one after the other, in the given order, from the
\* empty store
SerialRun(order) ==
    LET a == threads[order[1]]
        b == threads[order[2]]
        empty == [u \in {} |-> NoPath]
        r1 == WorkdirCommand(empty, a.user, a.text,
                             SessionWorkdir(empty, a.user), dirs)
        r2 == WorkdirCommand(r1.store, b.user, b.text,
                             SessionWorkdir(r1.store, b.user), dirs)
    IN  [store |-> r1.store, final |-> r2.store, first |-> r1.reply,
         second |-> r2.reply]

\* C17: when two threads have handled workdir commands of the same user, the
\* store and both replies are those of the two handlers run one after the
\* other in some order.
C17_PerUserSerialized ==
    (/\ \A t \in Threads : threads[t].pc = "done"
     /\ threads["T1"].user = threads["T2"].user) =>
        \E order \in {<<"T1", "T2">>, <<"T2", "T1">>} :
            /\ SerialRun(order).final = WORK_DIRECTORIES
            /\ SerialRun(order).first = threads[order[1]].reply
            /\ SerialRun(order).second = threads[order[2]].reply

\* the interaction handled last wrote the store
WroteStore ==
    route = "reset" \/ (route = "change" /\ log[1].text.fmt = "changed")

\* C18: every stored workdir is an absolute path, each write of the store
\* stores a directory that exists when it is written, either the default
\* workdir or the resolved target of a !cd whose check succeeded, and a !cd
\* whose check fails does not write.
C18_StoredWorkdirExistedWhenWritten ==
    /\ \A user_id \in DOMAIN WORK_DIRECTORIES :
          WORK_DIRECTORIES[user_id].abs
    /\ WroteStore =>
          /\ event.user \in DOMAIN WORK_DIRECTORIES
          /\ is_dir(WORK_DIRECTORIES[event.user], dirs)
          /\ \/ WORK_DIRECTORIES[event.user] = DEFAULT_WORKDIR
             \/ /\ is_dir(Target, dirs)
                /\ WORK_DIRECTORIES[event.user] = resolve(Target, dirs)
    /\ (Handled /\ ~WroteStore) => WORK_DIRECTORIES = pre

\* C19: only !cd and !cd <path> change the store: after a !pwd, after a
\* direct shell command, whatever its subprocess does, and after a
\* conversational message the store is as it was before.
C19_OnlyCdWritesStore ==
    ClaimedRoute(event.text) \in {"query", "direct", "conversational"} =>
        WORK_DIRECTORIES = pre

C19_Witness ==
    /\ route = "direct"
    /\ event.user \in DOMAIN pre
    /\ pre[event.user] # DEFAULT_WORKDIR
    /\ ~is_dir(pre[event.user], dirs)
    /\ Len(SelectSeq(log, IsShellRun)) = 1
    /\ log[1].ok

\* C20: the completion call of a conversational message, made with the
\* loaded history, the user message and the preamble, returns the text the
\* model service answers: it does not raise, and the answer is saved.
C20_CompletionCallAccepted ==
    (route = "conversational" /\ event.svc \in ModelOutputs) =>
        /\ raised # "TypeError"
        /\ \E i \in 1..Len(log) :
              IsSave(log[i]) /\ log[i].text.arg = event.svc

\* a history file is made of whole pairs: a user entry followed by a model
\* entry with the same timestamp, the timestamps never decreasing
WholePairs(file) ==
    /\ Len(file) % 2 = 0
    /\ \A k \in 1..(Len(file) \div 2) :
          /\ file[2 * k - 1].role = "user"
          /\ file[2 * k].role = "model"
          /\ file[2 * k - 1].timestamp = file[2 * k].timestamp
    /\ \A i, j \in 1..Len(file) :
          i < j => file[i].timestamp <= file[j].timestamp

\* the entries of a file from position first on, as turns
TurnsFrom(file, first) ==
    [i \in 1..(Len(file) - first + 1) |->
        [role |-> file[first + i - 1].role,
         parts |-> file[first + i - 1].content]]

\* what load_history returns now is the turns of the file without its k
\* oldest pairs, exactly the entries newer than the window
LoadsSuffix(user_id) ==
    LET file == history[user_id]
    IN  \E k \in 0..(Len(file) \div 2) :
            /\ load_history(history, user_id, HoursLimit, clock) =
                  TurnsFrom(file, 2 * k + 1)
            /\ \A i \in 1..Len(file) :
                  i > 2 * k <=> file[i].timestamp > clock - HoursLimit

\* C21: every history file consists of whole (user, model) pairs with one
\* timestamp per pair, in the order written; load_history returns the
\* newest whole pairs, those strictly newer than the window; the turns
\* passed to the model alternate user and model and end with the message
\* of the event; a command reads no history and saves none.
C21_HistoryWholePairs ==
    /\ \A user_id \in Users :
          WholePairs(history[user_id]) /\ LoadsSuffix(user_id)
    /\ route = "conversational" =>
          /\ Len(request) % 2 = 1
          /\ \A i \in 1..Len(request) :
                request[i].role = IF i % 2 = 1 THEN "user" ELSE "model"
          /\ request[Len(request)] = [role |-> "user", parts |-> event.text]
    /\ route \in {"query", "reset", "change", "unbound", "direct"} =>
          request = <<>> /\ SelectSeq(log, IsSave) = <<>>

C21_Witness ==
    /\ route = "conversational"
    /\ Len(request) = 3
    /\ Len(history[event.user]) = 4
    /\ Len(load_history(history, event.user, HoursLimit, clock)) = 2

====
